---- MODULE Spec2Model ----
(***************************************************************************)
(* Model of polym_loop.py (Polymatic): the polymerization loop controller. *)
(* The state is the module-level parameters and counter, the process's     *)
(* working directory, the part of the file system the controller touches,  *)
(* and the controller's position in main()/polym_loop()/polym_step().      *)
(* External programs (topology tool, conversion tools, LAMMPS) are inputs: *)
(* their exit status and whether they wrote their output are chosen with   *)
(* \E in the action that invokes them.                                     *)
(***************************************************************************)
EXTENDS Integers, Sequences, FiniteSets, TLC

(* ------------------------------ bounds --------------------------------- *)
MaxTarget == 3
MaxCycle == 2
MaxFreq == 2
MaxAttempts == 1

(* ------------------- parameter values of the source -------------------- *)
Default_bonds == 0
Default_bonds_tot == 16
Default_bonds_cyc == 5
Default_md_cyc == 3
CodeNoPair == 3

(* engine_code is the exit status of the LAMMPS call of the last step, -1  *)
(* when the last step called none.                                         *)
VARIABLES
    bonds_tot, bonds_cyc, md_cyc, md_max, keep, script_init, script_final, workspace,
    bonds, attempts, pc, cwd, dirs, files, exitcode, error,
    calls, tool_code, made, exhaustedAt, rollbacks, finalRuns, final_code, eq, enters,
    leaves, invoked, engine_code

params == <<bonds_tot, bonds_cyc, md_cyc, md_max, keep, script_init, script_final,
            workspace>>
counters == <<calls, tool_code, made, exhaustedAt, rollbacks, finalRuns, final_code, eq,
              enters, leaves, invoked>>
observers == <<counters, engine_code>>
vars == <<params, bonds, attempts, pc, cwd, dirs, files, exitcode, error, observers>>

(* --------------------------- names and paths --------------------------- *)
(* A name is a sequence of tokens, a path a sequence of names below the    *)
(* directory the run was started in (<<>>).                                *)
DigitChar == <<"0", "1", "2", "3", "4", "5", "6", "7", "8", "9">>

RECURSIVE Decimal(_)
Decimal(n) == IF n < 10 THEN <<DigitChar[n + 1]>>
              ELSE Decimal(n \div 10) \o <<DigitChar[(n % 10) + 1]>>

RECURSIVE ZeroPad(_, _)
ZeroPad(s, width) == IF Len(s) >= width THEN s ELSE ZeroPad(<<"0">> \o s, width)

(* '{0:03d}'.format(n) for n >= 0 *)
Format03d(n) == ZeroPad(Decimal(n), 3)

StepName(b) == <<"step_">> \o Format03d(b)
StepMdNameNoSuffix(b) == <<"step_">> \o Format03d(b)
StepMdName(b) == <<"step_">> \o Format03d(b) \o <<"_md">>
MdName(n) == <<"md_">> \o Format03d(n)

F_data == <<"data.lmps">>
F_init == <<"init.lmps">>
F_temp == <<"temp.lmps">>
F_final == <<"final.lmps">>
F_min == <<"min.lmps">>
F_md == <<"md.lmps">>

(* os.chdir('..') and the '..' of a relative path; above the start         *)
(* directory the path is marked with the name <<"..">>.                    *)
Parent(p) == IF Len(p) = 0 \/ p[Len(p)] = <<"..">> THEN p \o <<(<<"..">>)>>
             ELSE SubSeq(p, 1, Len(p) - 1)

IsPrefix(p, q) == Len(p) <= Len(q) /\ SubSeq(q, 1, Len(p)) = p

(* os.path.exists / os.path.isfile *)
PathExists(d, f, p) == p \in d \/ p \in DOMAIN f
IsFile(f, p) == p \in DOMAIN f

(* glob.glob of the prefix followed by a star, in directory c: the entries *)
(* of c whose name starts with the prefix.                                 *)
Glob(d, f, c, prefix) ==
    {p \in d \cup DOMAIN f : Len(p) = Len(c) + 1 /\ Parent(p) = c /\ p[Len(p)][1] = prefix}

(* shutil.rmtree of every path in ps *)
RmTreeDirs(d, ps) == {q \in d : \A p \in ps : ~IsPrefix(p, q)}
RmTreeFiles(f, ps) ==
    [q \in {x \in DOMAIN f : \A p \in ps : ~IsPrefix(p, x)} |-> f[q]]

(* a file's content: the operation that wrote it, the bond and attempt it  *)
(* was written at, and the operation that wrote that operation's input.    *)
(* The topology tool reads init.lmps (-i init.lmps); LAMMPS and the        *)
(* conversion tools read the staged data.lmps / temp.lmps of their stage.  *)
Origin(f, p) == IF p \in DOMAIN f THEN <<f[p].op, f[p].bond, f[p].att>>
                ELSE <<"none", 0, 0>>
Blob(op, b, a, src) == [op |-> op, bond |-> b, att |-> a, src |-> src]
InputBlob == Blob("input", 0, 0, <<"none", 0, 0>>)

(* shutil.copy(src, dst) *)
WriteFile(f, p, c) == [q \in DOMAIN f \cup {p} |-> IF q = p THEN c ELSE f[q]]
CopyFile(f, src, dst) == WriteFile(f, dst, f[src])

(* the outcome of a function of the program: the file system and working   *)
(* directory it leaves, and how it ended: "ok", "fatal" (err_exit) or      *)
(* "exception" (an uncaught Python exception), with the message.           *)
Res(kind, msg, d, f, c) == [kind |-> kind, msg |-> msg, dirs |-> d, files |-> f, cwd |-> c]

(* exit statuses the external programs are given in the model *)
ToolCodes == {0, 1, CodeNoPair, 4}
ConvCodes == {0, 1}
EngineCodes == {0, 1}

(* ------------------------------ functions ------------------------------ *)
setup_stepReuse ==
    LET directory == cwd \o <<StepName(bonds)>>
        src == Parent(directory) \o <<F_temp>>
        dst == directory \o <<IF bonds = 0 THEN F_data ELSE F_init>>
    IN  Res("ok", "", dirs \cup {directory}, CopyFile(files, src, dst), directory)

(* setup_step(): make step_NNN, enter it, stage ../temp.lmps *)
setup_step ==
    LET directory == cwd \o <<StepName(bonds)>>
        src == Parent(directory) \o <<F_temp>>
        dst == directory \o <<IF bonds = 0 THEN F_data ELSE F_init>>
    IN  IF PathExists(dirs, files, directory)
        THEN Res("fatal", "Directory already exists", dirs, files, cwd)
        ELSE IF ~IsFile(files, src)
        THEN Res("exception", "IOError", dirs \cup {directory}, files, directory)
        ELSE Res("ok", "", dirs \cup {directory}, CopyFile(files, src, dst), directory)

setup_mdStageData(num) ==
    LET directory == cwd \o <<IF num = 0 THEN StepMdName(bonds) ELSE MdName(num)>>
        src == Parent(directory) \o <<IF num = 0 THEN F_temp ELSE F_data>>
        dst == directory \o <<F_data>>
    IN  IF PathExists(dirs, files, directory)
        THEN Res("fatal", "Directory already exists", dirs, files, cwd)
        ELSE IF ~IsFile(files, src)
        THEN Res("exception", "IOError", dirs \cup {directory}, files, directory)
        ELSE Res("ok", "", dirs \cup {directory}, CopyFile(files, src, dst), directory)

(* setup_md(num): make step_NNN_md (num = 0) or md_NNN, enter it, stage    *)
(* ../temp.lmps (num = 0) or ../init.lmps as data.lmps                     *)
setup_md(num) ==
    LET directory == cwd \o <<IF num = 0 THEN StepMdName(bonds) ELSE MdName(num)>>
        src == Parent(directory) \o <<IF num = 0 THEN F_temp ELSE F_init>>
        dst == directory \o <<F_data>>
    IN  IF PathExists(dirs, files, directory)
        THEN Res("fatal", "Directory already exists", dirs, files, cwd)
        ELSE IF ~IsFile(files, src)
        THEN Res("exception", "IOError", dirs \cup {directory}, files, directory)
        ELSE Res("ok", "", dirs \cup {directory}, CopyFile(files, src, dst), directory)

CleanupNever(d, f, c, prefix, kind) == Res(kind, "", d, f, c)

CleanupAbove(d, f, c, prefix, kind) ==
    IF keep = 0
    THEN LET g == Glob(d, f, Parent(c), "step_")
         IN  Res(kind, "", RmTreeDirs(d, g), RmTreeFiles(f, g), c)
    ELSE Res(kind, "", d, f, c)

(* the 'Keep files?' blocks: rmtree of every glob match in directory c *)
Cleanup(d, f, c, prefix, kind) ==
    IF keep = 0
    THEN LET g == Glob(d, f, c, prefix)
         IN  Res(kind, "", RmTreeDirs(d, g), RmTreeFiles(f, g), c)
    ELSE Res(kind, "", d, f, c)

emChecksCode(code, wrote) ==
    LET out == cwd \o <<F_min>>
        f1 == IF wrote
              THEN WriteFile(files, out, Blob("em", bonds, 0, Origin(files, cwd \o <<F_data>>)))
              ELSE files
    IN  IF code # 0 \/ ~IsFile(f1, out)
        THEN Res("fatal", "LAMMPS energy minimization did not complete properly", dirs, f1, cwd)
        ELSE Cleanup(dirs, CopyFile(f1, out, Parent(cwd) \o <<F_temp>>), Parent(cwd),
                     "step_", "ok")

(* em(): LAMMPS minimization in the current directory; the engine's exit   *)
(* status is code, wrote says whether it wrote min.lmps                    *)
em(code, wrote) ==
    LET out == cwd \o <<F_min>>
        f1 == IF wrote
              THEN WriteFile(files, out, Blob("em", bonds, 0, Origin(files, cwd \o <<F_data>>)))
              ELSE files
    IN  IF ~IsFile(f1, out)
        THEN Res("fatal", "LAMMPS energy minimization did not complete properly", dirs, f1, cwd)
        ELSE Cleanup(dirs, CopyFile(f1, out, Parent(cwd) \o <<F_temp>>), Parent(cwd),
                     "step_", "ok")

MdTargetInit(num, c) == Parent(c) \o <<F_init>>

MdTargetTop(num, c) ==
    IF num = 0 THEN Parent(Parent(c)) \o <<F_temp>> ELSE Parent(c) \o <<F_temp>>

(* md, lines 233-236: where md.lmps is copied to from directory c *)
MdTarget(num, c) == Parent(c) \o <<IF num = 0 THEN F_init ELSE F_temp>>

(* md(num): LAMMPS dynamics in the current directory *)
md(num, code, wrote) ==
    LET out == cwd \o <<F_md>>
        op == IF num = 0 THEN "md0" ELSE IF num = 1 THEN "md1" ELSE "md2"
        f1 == IF wrote
              THEN WriteFile(files, out,
                             Blob(op, bonds, attempts, Origin(files, cwd \o <<F_data>>)))
              ELSE files
        dst == MdTarget(num, cwd)
    IN  IF ~IsFile(f1, out)
        THEN Res("fatal", "LAMMPS molecular dynamics did not complete properly", dirs, f1, cwd)
        ELSE Cleanup(dirs, CopyFile(f1, out, dst), Parent(cwd),
                     IF num = 0 THEN "md_" ELSE "step_", "ok")

err_exitReturns(msg, next) == [pc |-> next, exitcode |-> 1, error |-> msg]

(* err_exit(error): print the message, sys.exit(1): the position, exit     *)
(* status and message after it; next is where the caller would go on.      *)
err_exit(msg, next) == [pc |-> "exit", exitcode |-> 1, error |-> msg]

(* an uncaught exception ends the interpreter with status 1 *)
Uncaught(msg) == [pc |-> "exit", exitcode |-> 1, error |-> msg]

(* the controller's state after a function ended as r, going on at next *)
Continue(r, next) ==
    /\ dirs' = r.dirs /\ files' = r.files /\ cwd' = r.cwd
    /\ LET t == IF r.kind = "ok" THEN [pc |-> next, exitcode |-> exitcode, error |-> error]
                ELSE IF r.kind = "fatal" THEN err_exit(r.msg, next)
                ELSE Uncaught(r.msg)
       IN  pc' = t.pc /\ exitcode' = t.exitcode /\ error' = t.error

Count(tool) == [invoked EXCEPT ![tool] = @ + 1]

(* ------------------------------- Init ---------------------------------- *)
(* Stage directories a previous run may have left in the start directory.  *)
StaleDirs == {<<StepName(b)>> : b \in 0..MaxTarget} \cup {<<StepMdName(b)>> : b \in 1..MaxTarget}

(* The parameter block of the source, lines 50-55 and 65-67 (a script name *)
(* is 1, a script set to 0 is 0), and the start directory: clean, or with  *)
(* one stale stage directory, or with a script switched off.               *)
Small ==
    [bonds_tot : 0..MaxTarget, bonds_cyc : 1..MaxCycle, md_cyc : 1..MaxFreq,
     md_max : 0..MaxAttempts, keep : {0, 1}, script_init : {1}, script_final : {1},
     stale : {{}}]
Stale ==
    [bonds_tot : 0..MaxTarget, bonds_cyc : 1..MaxCycle, md_cyc : {1},
     md_max : 0..MaxAttempts, keep : {0, 1}, script_init : {1}, script_final : {1},
     stale : {{d} : d \in StaleDirs}]
NoScript ==
    [bonds_tot : 0..MaxTarget, bonds_cyc : {1}, md_cyc : {1},
     md_max : 0..MaxAttempts, keep : {0, 1}, script_init : {0, 1}, script_final : {0, 1},
     stale : {{}}]
Example ==
    [bonds_tot : {Default_bonds_tot}, bonds_cyc : {Default_bonds_cyc},
     md_cyc : {Default_md_cyc}, md_max : {0}, keep : {0}, script_init : {1},
     script_final : {1}, stale : {{}}]
Params == Small \cup Stale \cup NoScript \cup Example

Init ==
    /\ \E p \in Params :
          /\ bonds_tot = p.bonds_tot /\ bonds_cyc = p.bonds_cyc /\ md_cyc = p.md_cyc
          /\ md_max = p.md_max /\ keep = p.keep
          /\ script_init = p.script_init /\ script_final = p.script_final
          /\ dirs = p.stale /\ workspace = p.stale
    /\ bonds = Default_bonds
    /\ attempts = 0
    /\ pc = "polym_init"
    /\ cwd = <<>>
    /\ files = [q \in {<<F_data>>} |-> InputBlob]
    /\ exitcode = -1
    /\ error = ""
    /\ calls = 0
    /\ tool_code = -1
    /\ engine_code = -1
    /\ made = 0
    /\ final_code = -1
    /\ exhaustedAt = 0
    /\ rollbacks = 0
    /\ finalRuns = 0
    /\ eq = <<>>
    /\ enters = 0
    /\ leaves = 0
    /\ invoked = [topology |-> 0, engine |-> 0, conversion |-> 0]

(* ------------------------------ actions -------------------------------- *)
(* polym_init(): the initialization tool, or a copy when script_init is 0; *)
(* in that branch code is never bound and line 177 raises                  *)
(* UnboundLocalError.                                                      *)
polym_init ==
    /\ pc = "polym_init"
    /\ \E code \in ConvCodes, wrote \in BOOLEAN :
          LET out == cwd \o <<F_temp>>
              blob == Blob("init", bonds, 0, Origin(files, cwd \o <<F_data>>))
          IN  IF script_init # 0
              THEN LET f1 == IF wrote THEN WriteFile(files, out, blob) ELSE files
                   IN  /\ invoked' = Count("conversion")
                       /\ Continue(IF code # 0 \/ ~IsFile(f1, out)
                                   THEN Res("fatal", "Polymerization initialization script did not complete properly", dirs, f1, cwd)
                                   ELSE Res("ok", "", dirs, f1, cwd),
                                   "setup_step_0")
              ELSE /\ invoked' = invoked
                   /\ Continue(Res("exception", "UnboundLocalError", dirs,
                                   CopyFile(files, cwd \o <<F_data>>, out), cwd),
                               "setup_step_0")
    /\ UNCHANGED <<params, engine_code, bonds, attempts, calls, tool_code, made, final_code, exhaustedAt, rollbacks,
                   finalRuns, eq, enters, leaves>>

(* a call of setup_step() from polym_loop, going on at next *)
CallSetupStep(next) ==
    LET r == setup_step
    IN  /\ Continue(r, next)
        /\ enters' = IF r.kind = "ok" THEN enters + 1 ELSE enters
        /\ UNCHANGED <<params, engine_code, bonds, attempts, calls, tool_code, made, final_code, exhaustedAt, rollbacks,
                       finalRuns, eq, leaves, invoked>>

(* a call of em() from polym_loop, going on at next *)
CallEm(next) ==
    \E code \in EngineCodes, wrote \in BOOLEAN :
        LET r == em(code, wrote)
        IN  /\ Continue(r, next)
            /\ leaves' = IF r.kind = "ok" THEN leaves + 1 ELSE leaves
            /\ invoked' = Count("engine")
            /\ engine_code' = code
            /\ UNCHANGED <<params, bonds, attempts, calls, tool_code, made, final_code, exhaustedAt,
                           rollbacks, finalRuns, eq, enters>>

(* polym_loop, lines 94-96: step 0 *)
setup_step_0 == pc = "setup_step_0" /\ CallSetupStep("em_0")
em_0 == pc = "em_0" /\ CallEm("while")

LoopCondInclusive == bonds <= bonds_tot

(* polym_loop, line 99 *)
LoopCond == bonds < bonds_tot

(* polym_loop, lines 99-102: the loop condition and the tentative increment *)
while ==
    /\ pc = "while"
    /\ IF LoopCond
       THEN bonds' = bonds + 1 /\ pc' = "setup_step"
       ELSE bonds' = bonds /\ pc' = "polym_final"
    /\ engine_code' = -1
    /\ UNCHANGED <<params, attempts, cwd, dirs, files, exitcode, error, counters>>

(* polym_loop, line 103 *)
setup_step_k == pc = "setup_step" /\ CallSetupStep("polym_step")

AfterEmNoCycle ==
    IF bonds = bonds_tot THEN "polym_final" ELSE "while"

(* polym_loop, lines 109-119, after em() returned: where the loop goes on *)
AfterEm ==
    IF bonds = bonds_tot THEN "polym_final"
    ELSE IF bonds % bonds_cyc = 0 THEN "setup_md_0"
    ELSE "while"

(* polym_loop, line 107 *)
em_k == pc = "em" /\ CallEm(AfterEm)

(* polym_step, line 128 *)
AttemptsInit == 1

(* polym_step, lines 126-128: entry *)
polym_step ==
    /\ pc = "polym_step"
    /\ attempts' = AttemptsInit
    /\ calls' = 0
    /\ pc' = "attempt"
    /\ UNCHANGED <<params, engine_code, bonds, cwd, dirs, files, exitcode, error, tool_code,
                   made, final_code, exhaustedAt, rollbacks, finalRuns, eq, enters, leaves, invoked>>

OutcomeRetryOnMissing(code, present) ==
    IF code = 0 THEN (IF present THEN "bond" ELSE "nopair")
    ELSE IF code = CodeNoPair THEN "nopair"
    ELSE "error"

(* polym_step, lines 140, 142, 147, 165: what the tool's exit status and   *)
(* the presence of data.lmps lead to                                       *)
Outcome(code, present) ==
    IF code = 0 THEN (IF present THEN "bond" ELSE "error")
    ELSE IF code = CodeNoPair THEN "nopair"
    ELSE "error"

MaxReachedLate(a) == a > md_max + 1

MaxReachedNever(a) == FALSE

(* polym_step, line 150 *)
MaxReached(a) == a > md_max

RollbackTwice(b) == b - 2

(* polym_step, line 152 *)
Rollback(b) == b - 1

AbortStay(c) == c

(* polym_step, line 153 *)
AbortLeave(c) == Parent(c)

AfterExhaustionRelax == "em"

(* polym_loop, lines 105-106: polym_step returned 1, break *)
AfterExhaustion == "polym_final"

(* polym_step, lines 133-166: one pass of the while(1) loop up to the      *)
(* return, the exit or the call of setup_md                                *)
attempt ==
    /\ pc = "attempt"
    /\ \E code \in ToolCodes, wrote \in BOOLEAN :
          LET out == cwd \o <<F_data>>
              blob == Blob("polym", bonds, attempts, Origin(files, cwd \o <<F_init>>))
              f1 == IF wrote THEN WriteFile(files, out, blob) ELSE files
              o == Outcome(code, IsFile(f1, out))
              msg == "Polymerization step script did not complete properly"
          IN  /\ tool_code' = code
              /\ calls' = calls + 1
              /\ made' = IF o = "bond" THEN made + 1 ELSE made
              /\ invoked' = Count("topology")
              /\ IF o = "nopair" /\ MaxReached(attempts)
                 THEN /\ bonds' = Rollback(bonds)
                      /\ Continue(Cleanup(dirs, f1, AbortLeave(cwd), "step_", "ok"), AfterExhaustion)
                      /\ exhaustedAt' = bonds
                      /\ rollbacks' = rollbacks + 1
                      /\ leaves' = leaves + 1
                 ELSE /\ Continue(Res(IF o = "error" THEN "fatal" ELSE "ok", msg, dirs, f1, cwd),
                                  IF o = "bond" THEN "em" ELSE "setup_md")
                      /\ UNCHANGED <<bonds, exhaustedAt, rollbacks, leaves>>
    /\ engine_code' = -1
    /\ UNCHANGED <<params, attempts, finalRuns, final_code, eq, enters>>

(* polym_step, line 160: setup_md(attempts) *)
setup_md_attempt ==
    /\ pc = "setup_md"
    /\ LET r == setup_md(attempts)
       IN  /\ Continue(r, "md")
           /\ enters' = IF r.kind = "ok" THEN enters + 1 ELSE enters
    /\ UNCHANGED <<params, engine_code, bonds, attempts, calls, tool_code, made, final_code, exhaustedAt, rollbacks,
                   finalRuns, eq, leaves, invoked>>

(* polym_step, lines 161-162: md(0), then attempts += 1 *)
md_attempt ==
    /\ pc = "md"
    /\ \E code \in EngineCodes, wrote \in BOOLEAN :
          LET r == md(0, code, wrote)
          IN  /\ Continue(r, "attempt")
              /\ attempts' = IF r.kind = "ok" THEN attempts + 1 ELSE attempts
              /\ engine_code' = code
              /\ leaves' = IF r.kind = "ok" THEN leaves + 1 ELSE leaves
    /\ invoked' = Count("engine")
    /\ UNCHANGED <<params, bonds, calls, tool_code, made, final_code, exhaustedAt, rollbacks, finalRuns,
                   eq, enters>>

(* polym_loop, line 115: setup_md(0) *)
setup_md_0 ==
    /\ pc = "setup_md_0"
    /\ LET r == setup_md(0)
       IN  /\ Continue(r, "md_cycle")
           /\ enters' = IF r.kind = "ok" THEN enters + 1 ELSE enters
    /\ engine_code' = -1
    /\ UNCHANGED <<params, bonds, attempts, calls, tool_code, made, final_code, exhaustedAt, rollbacks,
                   finalRuns, eq, leaves, invoked>>

MdTypeSwapped(b) == IF (b \div bonds_cyc) % md_cyc = 0 THEN 1 ELSE 2

(* polym_loop, line 116: the type of the equilibration after bond b *)
MdType(b) == IF (b \div bonds_cyc) % md_cyc = 0 THEN 2 ELSE 1

(* polym_loop, lines 116-119: md(2) or md(1) *)
md_cycle ==
    /\ pc = "md_cycle"
    /\ \E code \in EngineCodes, wrote \in BOOLEAN :
          LET r == md(MdType(bonds), code, wrote)
          IN  /\ Continue(r, "while")
              /\ eq' = IF r.kind = "ok" THEN Append(eq, <<bonds, MdType(bonds)>>) ELSE eq
              /\ engine_code' = code
              /\ leaves' = IF r.kind = "ok" THEN leaves + 1 ELSE leaves
    /\ invoked' = Count("engine")
    /\ UNCHANGED <<params, bonds, attempts, calls, tool_code, made, final_code, exhaustedAt, rollbacks,
                   finalRuns, enters>>

RemoveNothing(f, p) == f

(* os.remove(path) *)
Remove(f, p) == RmTreeFiles(f, {p})

(* polym_final(): the finalization tool, or a copy when script_final is 0  *)
(* (code is then unbound at line 189); then temp.lmps is removed           *)
polym_final ==
    /\ pc = "polym_final"
    /\ finalRuns' = finalRuns + 1
    /\ \E code \in ConvCodes, wrote \in BOOLEAN :
          LET out == cwd \o <<F_final>>
              inp == cwd \o <<F_temp>>
              blob == Blob("final", bonds, 0, Origin(files, inp))
          IN  IF script_final # 0
              THEN LET f1 == IF wrote THEN WriteFile(files, out, blob) ELSE files
                   IN  /\ invoked' = Count("conversion")
                       /\ final_code' = code
                       /\ Continue(IF code # 0 \/ ~IsFile(f1, out)
                                   THEN Res("fatal", "Polymerization finalization script did not complete properly", dirs, f1, cwd)
                                   ELSE IF ~IsFile(f1, inp)
                                   THEN Res("exception", "OSError", dirs, f1, cwd)
                                   ELSE Res("ok", "", dirs, Remove(f1, inp), cwd),
                                   "print_footer")
              ELSE /\ invoked' = invoked
                   /\ final_code' = final_code
                   /\ Continue(IF ~IsFile(files, inp)
                               THEN Res("exception", "IOError", dirs, files, cwd)
                               ELSE Res("exception", "UnboundLocalError", dirs,
                                        CopyFile(files, inp, out), cwd),
                               "print_footer")
    /\ engine_code' = -1
    /\ UNCHANGED <<params, bonds, attempts, calls, tool_code, made, exhaustedAt, rollbacks,
                   eq, enters, leaves>>

(* main, line 80: print_footer() divides by bonds_tot; then the            *)
(* interpreter ends with status 0                                          *)
print_footer ==
    /\ pc = "print_footer"
    /\ LET t == IF bonds_tot = 0 THEN Uncaught("ZeroDivisionError")
                ELSE [pc |-> "exit", exitcode |-> 0, error |-> error]
       IN  pc' = t.pc /\ exitcode' = t.exitcode /\ error' = t.error
    /\ UNCHANGED <<params, bonds, attempts, cwd, dirs, files, observers>>

Next ==
    \/ polym_init
    \/ setup_step_0
    \/ em_0
    \/ while
    \/ setup_step_k
    \/ polym_step
    \/ attempt
    \/ setup_md_attempt
    \/ md_attempt
    \/ em_k
    \/ setup_md_0
    \/ md_cycle
    \/ polym_final
    \/ print_footer

Spec == Init /\ [][Next]_vars

(* Every call of an external program returns and the interpreter, which   *)
(* is single-threaded and synchronous, then runs the next statement: a     *)
(* step that can be taken is eventually taken.                             *)
(* The runs from a clean start directory; the type of an equilibration is  *)
(* not distinguished (md_cyc = 1) except in the example of the source.     *)
FairInit == Init /\ workspace = {} /\ (md_cyc = 1 \/ bonds_tot = Default_bonds_tot)

FairSpec == FairInit /\ [][Next]_vars /\ WF_vars(Next)

(* ------------------------------- claims -------------------------------- *)
MsgFinal == "Polymerization finalization script did not complete properly"
MsgCollision == "Directory already exists"

(* C1: for every bond the topology tool is invoked at most md_max + 1      *)
(* times; the attempt counter starts at 1 and is the index of the next     *)
(* invocation; exhaustion (the rollback) is declared in exactly the        *)
(* invocations that return status 3 with attempt index > md_max.           *)
C1_AttemptBound ==
    [][ /\ calls' <= md_max + 1
        /\ (pc = "polym_step" => attempts' = 1 /\ calls' = 0)
        /\ (pc = "attempt" =>
              /\ attempts = calls + 1
              /\ calls' = calls + 1
              /\ (rollbacks' = rollbacks + 1
                    <=> (tool_code' = 3 /\ attempts > md_max))
              /\ (pc' = "polym_final"
                    <=> (tool_code' = 3 /\ attempts > md_max))) ]_vars

(* C1 witness: exhaustion declared after md_max + 1 invocations, one of    *)
(* them a retry                                                            *)
C1_Witness == exhaustedAt > 0 /\ md_max >= 1 /\ calls = md_max + 1

(* C2 as stated: whenever a run in which exhaustion occurred has ended, it *)
(* ended with status 0, after one rollback to exhaustedAt - 1 and one      *)
(* finalization (here for runs that use the finalization script).          *)
C2_Original ==
    (exhaustedAt > 0 /\ pc = "exit" /\ script_final # 0)
        => (exitcode = 0 /\ rollbacks = 1 /\ bonds = exhaustedAt - 1 /\ finalRuns = 1)

(* C2 amended: on exhaustion at bond k bonds is decremented once, to       *)
(* k - 1, no error is raised, the loop is left for finalization, which     *)
(* runs once; the run ends with status 0 when the finalization script ran  *)
(* and ended with status 0 and final.lmps present.                         *)
C2_Rollback ==
    [][ /\ (rollbacks' # rollbacks =>
              /\ rollbacks = 0 /\ rollbacks' = 1
              /\ exhaustedAt' = bonds /\ bonds' = bonds - 1
              /\ pc' = "polym_final" /\ error' = "" /\ exitcode' = -1)
        /\ (exhaustedAt' > 0 =>
              /\ rollbacks' = 1 /\ bonds' = exhaustedAt' - 1
              /\ pc' \in {"polym_final", "print_footer", "exit"}
              /\ (pc' = "polym_final" => finalRuns' = 0)
              /\ (pc' # "polym_final" => finalRuns' = 1)
              /\ (pc' = "exit" /\ script_final # 0 /\ final_code' = 0
                     /\ IsFile(files', <<F_final>>) => exitcode' = 0)) ]_vars

(* C2 witness: an aborted run that ended with status 0 *)
C2_Witness == exhaustedAt > 0 /\ pc = "exit" /\ exitcode = 0 /\ bonds = exhaustedAt - 1

(* C3: 0 <= bonds <= bonds_tot in every state; bonds is the number of      *)
(* bonds made, plus one while a bond is being attempted; it only changes   *)
(* by +1 at the loop head and by -1 in the one rollback.                   *)
C3_BondsRange ==
    [][ /\ 0 <= bonds' /\ bonds' <= bonds_tot
        /\ made' <= bonds' /\ bonds' <= made' + 1
        /\ (pc' \in {"while", "setup_md_0", "md_cycle", "polym_final", "print_footer"}
              => bonds' = made')
        /\ (made' = made + 1 => pc = "attempt" /\ bonds' = bonds /\ bonds = made')
        /\ (bonds' # bonds =>
              \/ bonds' = bonds + 1 /\ pc = "while"
              \/ bonds' = bonds - 1 /\ rollbacks = 0 /\ rollbacks' = 1) ]_vars

(* C3 witness: bonds made up to the target after a rollback-free run with  *)
(* a retry                                                                 *)
C3_Witness == pc = "exit" /\ exitcode = 0 /\ bonds = bonds_tot /\ bonds >= 2 /\ made = bonds

(* C4: finalization runs at most once, only after the main loop, and in    *)
(* every run that ended with status 0, completed or aborted, it ran once,  *)
(* final.lmps written by it exists and temp.lmps is gone.                  *)
C4_Finalization ==
    /\ finalRuns <= 1
    /\ (finalRuns = 1 => pc \in {"print_footer", "exit"})
    /\ (pc = "print_footer" => finalRuns = 1)
    /\ (pc = "exit" /\ exitcode = 0 =>
          /\ finalRuns = 1
          /\ bonds = bonds_tot \/ exhaustedAt > 0
          /\ IsFile(files, <<F_final>>)
          /\ files[<<F_final>>].op = "final"
          /\ ~IsFile(files, <<F_temp>>))

(* C4 witness: an aborted run, ended with status 0 and final.lmps *)
C4_Witness ==
    pc = "exit" /\ exitcode = 0 /\ exhaustedAt > 0 /\ bonds < bonds_tot
        /\ IsFile(files, <<F_final>>)

C5_Due(k) == k % bonds_cyc = 0 /\ k < bonds_tot
C5_Type(k) == IF (k \div bonds_cyc) % md_cyc = 0 THEN 2 ELSE 1
C5_Settled == pc \in {"while", "polym_final", "print_footer"} \/ (pc = "exit" /\ exitcode = 0)

(* C5: the full equilibrations run so far are, in order, those after the   *)
(* committed bonds k with k mod bonds_cyc = 0 and k < bonds_tot, each of   *)
(* type 2 when (k / bonds_cyc) mod md_cyc = 0 and of type 1 otherwise; for *)
(* 16, 5, 3: type 1 after bonds 5 and 10 and type 2 after bond 15.         *)
C5_CyclePolicy ==
    /\ \A i \in 1..Len(eq) :
          /\ C5_Due(eq[i][1])
          /\ eq[i][1] <= bonds
          /\ eq[i][2] = C5_Type(eq[i][1])
          /\ (i > 1 => eq[i - 1][1] < eq[i][1])
    /\ (C5_Settled => \A k \in 1..bonds : C5_Due(k) => \E i \in 1..Len(eq) : eq[i][1] = k)
    /\ (pc = "exit" /\ exitcode = 0 /\ bonds = 16 /\ bonds_tot = 16 /\ bonds_cyc = 5
          /\ md_cyc = 3 => eq = << <<5, 1>>, <<10, 1>>, <<15, 2>> >>)

(* C5 witness: the completed run of the example *)
C5_Witness ==
    pc = "exit" /\ exitcode = 0 /\ bonds = 16 /\ bonds_tot = 16 /\ bonds_cyc = 5
        /\ md_cyc = 3 /\ Len(eq) = 3

(* C6: the working directory is the start directory whenever the loop      *)
(* condition is evaluated and when finalization starts, one stage deep     *)
(* when the topology tool, em or md(1|2) runs, two deep when md(0) runs;   *)
(* stage entries and exits are paired on every path without a fatal error. *)
C6_Cursor ==
    /\ (pc \in {"polym_init", "setup_step_0", "while", "setup_step", "setup_md_0",
                 "polym_final", "print_footer"}
          => cwd = <<>> /\ enters = leaves)
    /\ (pc = "em_0" => cwd = <<StepName(0)>> /\ enters = leaves + 1)
    /\ (pc \in {"polym_step", "attempt", "setup_md", "em"}
          => Len(cwd) = 1 /\ cwd = <<StepName(bonds)>> /\ enters = leaves + 1)
    /\ (pc = "md_cycle"
          => Len(cwd) = 1 /\ cwd = <<StepMdName(bonds)>> /\ enters = leaves + 1)
    /\ (pc = "md"
          => Len(cwd) = 2 /\ cwd = <<StepName(bonds), MdName(attempts)>>
             /\ enters = leaves + 2)
    /\ (pc = "exit" /\ exitcode = 0 => cwd = <<>> /\ enters = leaves)

(* C6 witness: finalization about to start on the abort path, after a     *)
(* retry                                                                   *)
C6_Witness ==
    pc = "polym_final" /\ exhaustedAt > 0 /\ calls >= 2 /\ cwd = <<>> /\ enters = leaves

C7_Collides ==
    \/ pc \in {"setup_step_0", "setup_step"}
         /\ PathExists(dirs, files, cwd \o <<StepName(bonds)>>)
    \/ pc = "setup_md_0" /\ PathExists(dirs, files, cwd \o <<StepMdName(bonds)>>)
    \/ pc = "setup_md" /\ PathExists(dirs, files, cwd \o <<MdName(attempts)>>)

(* C7: when setup_step or setup_md is to create a directory that exists,   *)
(* the run ends at once with status 1: the working directory, the          *)
(* directories and the files are unchanged, no tool is invoked, and        *)
(* nothing happens after the exit.                                         *)
C7_CollisionFatal ==
    [][ /\ pc # "exit"
        /\ (C7_Collides =>
              /\ pc' = "exit" /\ exitcode' = 1 /\ error' = MsgCollision
              /\ cwd' = cwd /\ dirs' = dirs /\ files' = files /\ invoked' = invoked) ]_vars

(* C7 witness: a run ended by a stale step directory of a bond *)
C7_Witness ==
    pc = "exit" /\ exitcode = 1 /\ error = MsgCollision /\ bonds >= 1
        /\ bonds = made + 1 /\ cwd = <<>>

(* C8: with keep = 0 no stage directory is left when a run ends with       *)
(* status 0, completed or aborted; with keep # 0 no directory is ever      *)
(* removed and every stage entry adds one.                                 *)
C8_Cleanup ==
    [][ /\ (keep = 0 /\ pc' = "exit" /\ exitcode' = 0 => dirs' = {})
        /\ (keep # 0 =>
              /\ dirs \subseteq dirs'
              /\ Cardinality(dirs') = Cardinality(dirs) + (enters' - enters)) ]_vars

(* C8 witness: an aborted run with keep = 0 that made step, retry and      *)
(* equilibration directories and left none                                 *)
C8_Witness ==
    pc = "exit" /\ exitcode = 0 /\ keep = 0 /\ exhaustedAt > 0 /\ calls >= 2
        /\ Len(eq) >= 1 /\ dirs = {}

C9_Fatal ==
    {"Polymerization initialization script did not complete properly",
     "Polymerization step script did not complete properly",
     "LAMMPS energy minimization did not complete properly",
     "LAMMPS molecular dynamics did not complete properly",
     MsgFinal, MsgCollision}

(* C9: the step in which a fatal condition arises ends the run with status *)
(* 1 and changes neither bonds nor the working directory nor the set of    *)
(* directories; a topology status other than 0 and 3 is such a condition;  *)
(* after the exit nothing happens: no tool, no retry, no finalization.     *)
C9_FatalStops ==
    [][ /\ pc # "exit"
        /\ (pc = "attempt" /\ tool_code' \notin {0, 3} => error' \in C9_Fatal)
        /\ (error' \in C9_Fatal =>
              /\ pc' = "exit" /\ exitcode' = 1
              /\ bonds' = bonds /\ attempts' = attempts /\ rollbacks' = rollbacks
              /\ cwd' = cwd /\ dirs' = dirs
              /\ (pc # "polym_final" => finalRuns' = finalRuns)) ]_vars

(* C9 witness: a run ended by md(0) leaving no md.lmps, inside the retry   *)
(* directory                                                               *)
C9_Witness ==
    pc = "exit" /\ exitcode = 1 /\ Len(cwd) = 2 /\ finalRuns = 0
        /\ error = "LAMMPS molecular dynamics did not complete properly"

(* C10: status 0 with data.lmps present makes polym_step return success;   *)
(* status 0 without data.lmps is fatal; status 3 leads to a retry or to    *)
(* exhaustion; any other status is fatal.                                  *)
C10_Classification ==
    [][ pc = "attempt" =>
          LET present == IsFile(files', cwd \o <<F_data>>)
              fatal == pc' = "exit" /\ exitcode' = 1 /\ made' = made
                         /\ error' = "Polymerization step script did not complete properly"
          IN  /\ (tool_code' = 0 /\ present =>
                    pc' = "em" /\ error' = "" /\ made' = made + 1 /\ attempts' = attempts)
              /\ (tool_code' = 0 /\ ~present => fatal)
              /\ (tool_code' = 3 =>
                    /\ pc' \in {"setup_md", "polym_final"}
                    /\ error' = "" /\ made' = made)
              /\ (tool_code' \notin {0, 3} => fatal) ]_vars

(* C10 witness: status 0 without data.lmps ended the run, after a retry *)
C10_Witness ==
    pc = "exit" /\ exitcode = 1 /\ tool_code = 0 /\ calls >= 2
        /\ error = "Polymerization step script did not complete properly"
        /\ ~IsFile(files, cwd \o <<F_data>>)

(* C11: with script_init = 0 polym_init copies data.lmps to temp.lmps,     *)
(* invokes no tool and the run goes on to step 0; with script_final = 0    *)
(* polym_final copies temp.lmps to final.lmps, invokes no tool and the run *)
(* goes on to the summary.                                                 *)
C11_PlainCopy ==
    [][ /\ (pc = "polym_init" /\ script_init = 0 =>
              /\ pc' = "setup_step_0" /\ error' = "" /\ exitcode' = -1
              /\ invoked' = invoked
              /\ IsFile(files', <<F_temp>>)
              /\ files'[<<F_temp>>] = files[<<F_data>>])
        /\ (pc = "polym_final" /\ script_final = 0 =>
              /\ pc' = "print_footer" /\ error' = "" /\ exitcode' = -1
              /\ invoked' = invoked
              /\ IsFile(files', <<F_final>>)
              /\ files'[<<F_final>>] = files[<<F_temp>>]) ]_vars

(* C12: the steps of polym_step (topology invocation, staging of a retry   *)
(* directory, md(0)) leave the top-level temp.lmps as it is, md(0) only    *)
(* replaces init.lmps of the step directory; so at exhaustion temp.lmps is *)
(* the output of the last em or md(1|2), of bond bonds, and finalization   *)
(* converts it; with bonds_tot = 1 and md_max = 0 an aborted run invoked   *)
(* the topology tool once, has bonds = 0 and final.lmps made from the      *)
(* min.lmps of step 0.                                                     *)
C12_RetryFrame ==
    [][ /\ (pc \in {"attempt", "setup_md", "md"} =>
              /\ IsFile(files, <<F_temp>>) /\ IsFile(files', <<F_temp>>)
              /\ files'[<<F_temp>>] = files[<<F_temp>>])
        /\ (pc = "md" /\ pc' = "attempt" =>
              /\ files'[<<StepName(bonds), F_init>>].op = "md0"
              /\ \A q \in DOMAIN files :
                    q # <<StepName(bonds), F_init>> /\ q \in DOMAIN files'
                       => files'[q] = files[q])
        /\ (rollbacks' = rollbacks + 1 =>
              /\ files'[<<F_temp>>].op \in {"em", "md1", "md2"}
              /\ files'[<<F_temp>>].bond = bonds')
        /\ (pc = "polym_final" /\ exhaustedAt > 0 /\ pc' = "print_footer" =>
              /\ files'[<<F_final>>].src = Origin(files, <<F_temp>>)
              /\ files'[<<F_final>>].src[1] \in {"em", "md1", "md2"}
              /\ files'[<<F_final>>].src[2] = bonds)
        /\ (pc' = "exit" /\ exitcode' = 0 /\ exhaustedAt' > 0 /\ bonds_tot = 1
               /\ md_max = 0 =>
              /\ invoked'.topology = 1 /\ bonds' = 0
              /\ files'[<<F_final>>].src = <<"em", 0, 0>>) ]_vars

(* C12 witness: an aborted run with a retry pass, finalized from the       *)
(* min.lmps of the last committed bond                                     *)
C12_Witness ==
    pc = "exit" /\ exitcode = 0 /\ exhaustedAt = 2 /\ calls = 2 /\ invoked.engine >= 3
        /\ IsFile(files, <<F_final>>) /\ files[<<F_final>>].src = <<"em", 1, 0>>

MsgEm == "LAMMPS energy minimization did not complete properly"
MsgMd == "LAMMPS molecular dynamics did not complete properly"

(* the engine's output artifact out was there when the call returned: it   *)
(* is still there, or (the stage directory was removed since) its copy at  *)
(* dst is the output of this call                                          *)
C13_Present(out, dst, op, att) ==
    \/ IsFile(files', out)
    \/ IsFile(files', dst) /\ Origin(files', dst) = <<op, bonds, att>>

C13_Decided(present, msg) ==
    /\ engine_code' \in EngineCodes
    /\ (present => pc' # "exit" /\ exitcode' = -1 /\ error' = "")
    /\ (~present => pc' = "exit" /\ exitcode' = 1 /\ error' = msg)

(* C13: a call of em or md is fatal exactly when its output artifact       *)
(* (min.lmps, md.lmps) is absent after the call, whatever the engine's     *)
(* exit status: with the artifact the run goes on and the artifact is      *)
(* copied to its target, without it the run ends with status 1.            *)
C13_ArtifactDecides ==
    [][ /\ (pc \in {"em_0", "em"} =>
              /\ C13_Decided(C13_Present(cwd \o <<F_min>>, <<F_temp>>, "em", 0), MsgEm)
              /\ (keep # 0 =>
                    C13_Decided(IsFile(files', cwd \o <<F_min>>), MsgEm)))
        /\ (pc = "md" =>
              /\ C13_Decided(C13_Present(cwd \o <<F_md>>, Parent(cwd) \o <<F_init>>,
                                         "md0", attempts), MsgMd)
              /\ (keep # 0 =>
                    C13_Decided(IsFile(files', cwd \o <<F_md>>), MsgMd)))
        /\ (pc = "md_cycle" =>
              /\ C13_Decided(C13_Present(cwd \o <<F_md>>, <<F_temp>>,
                                         IF MdType(bonds) = 1 THEN "md1" ELSE "md2",
                                         attempts), MsgMd)
              /\ (keep # 0 =>
                    C13_Decided(IsFile(files', cwd \o <<F_md>>), MsgMd))) ]_vars

(* C13 witness: em of a bond ended with status 1, left min.lmps, and the   *)
(* run went on to the equilibration                                        *)
C13_Witness ==
    pc = "setup_md_0" /\ engine_code = 1 /\ error = "" /\ bonds >= 1
        /\ Origin(files, <<F_temp>>) = <<"em", bonds, 0>>

(* C14 as stated: each equilibration cycle is two engine passes, so when   *)
(* the loop condition is evaluated the engine has run once for step 0,     *)
(* once per topology invocation (the relaxation of a made bond or the      *)
(* md(0) after a missing pair) and twice per equilibration cycle.          *)
C14_Original ==
    pc = "while" => invoked.engine = 1 + invoked.topology + 2 * Len(eq)

(* C14 amended: after a committed bond k with k mod bonds_cyc = 0 and      *)
(* k < bonds_tot, setup_md(0) stages step_NNN_md from the min.lmps of bond *)
(* k without running the engine, then one engine pass, md(1) or md(2),     *)
(* runs on it and its output becomes temp.lmps before the next attempt:    *)
(* one engine pass per equilibration cycle.                                *)
C14_OnePass ==
    [][ /\ (pc = "em" /\ pc' # "exit" =>
              (pc' = "setup_md_0" <=> bonds % bonds_cyc = 0 /\ bonds < bonds_tot))
        /\ (pc = "setup_md_0" =>
              /\ invoked' = invoked
              /\ (pc' = "md_cycle" =>
                    /\ cwd' = <<StepMdName(bonds)>>
                    /\ files'[cwd' \o <<F_data>>] = files[<<F_temp>>]
                    /\ Origin(files, <<F_temp>>) = <<"em", bonds, 0>>))
        /\ (pc = "md_cycle" =>
              /\ invoked'.engine = invoked.engine + 1
              /\ invoked'.topology = invoked.topology
              /\ (pc' # "exit" =>
                    /\ pc' = "while"
                    /\ eq' = Append(eq, <<bonds, MdType(bonds)>>)
                    /\ files'[<<F_temp>>].op = (IF MdType(bonds) = 1 THEN "md1" ELSE "md2")
                    /\ files'[<<F_temp>>].bond = bonds
                    /\ files'[<<F_temp>>].src = <<"em", bonds, 0>>))
        /\ (pc' = "while" =>
              /\ invoked'.engine = 1 + invoked'.topology + Len(eq')
              /\ (bonds' >= 1 /\ bonds' % bonds_cyc = 0 =>
                    /\ Len(eq') >= 1 /\ eq'[Len(eq')][1] = bonds'
                    /\ files'[<<F_temp>>].op \in {"md1", "md2"})) ]_vars

(* C14 witness: back at the loop head after the first equilibration, which *)
(* followed a bond made at the second attempt: step 0, md(0), em, md(1|2)  *)
C14_Witness ==
    pc = "while" /\ Len(eq) = 1 /\ invoked.topology = 2 /\ invoked.engine = 4
        /\ files[<<F_temp>>].op \in {"md1", "md2"}

(* C15: a status 3 with attempts <= md_max is followed by exactly one      *)
(* perturbation pass before the next topology invocation of the bond:      *)
(* md_NNN (NNN the attempt index) is made inside the step directory with   *)
(* the step's init.lmps staged as data.lmps, md(0) runs there, its md.lmps *)
(* replaces the step's init.lmps and attempts grows by 1; so the           *)
(* invocation with index n reads the output of pass n - 1 (the staged      *)
(* temp.lmps for n = 1) and was preceded by n - 1 passes.                  *)
C15_Perturbation ==
    [][ /\ (pc = "attempt" =>
              /\ attempts = calls + 1
              /\ (pc' = "setup_md" <=> tool_code' = 3 /\ attempts <= md_max)
              /\ pc' # "md"
              /\ (attempts = 1 =>
                    files[<<StepName(bonds), F_init>>].op \in {"em", "md1", "md2"})
              /\ (attempts > 1 =>
                    /\ files[<<StepName(bonds), F_init>>].op = "md0"
                    /\ files[<<StepName(bonds), F_init>>].bond = bonds
                    /\ files[<<StepName(bonds), F_init>>].att = attempts - 1))
        /\ (pc = "setup_md" =>
              /\ pc' = "md" /\ invoked' = invoked /\ attempts' = attempts
              /\ cwd' = <<StepName(bonds), MdName(attempts)>>
              /\ (attempts = 1 => cwd'[2] = <<"md_", "0", "0", "1">>)
              /\ cwd' \notin dirs /\ cwd' \in dirs'
              /\ files'[cwd' \o <<F_data>>] = files[<<StepName(bonds), F_init>>])
        /\ (pc = "md" =>
              /\ pc' \in {"attempt", "exit"}
              /\ invoked'.engine = invoked.engine + 1
              /\ invoked'.topology = invoked.topology
              /\ (pc' = "attempt" =>
                    /\ attempts' = attempts + 1 /\ calls' = calls
                    /\ cwd' = <<StepName(bonds)>> /\ bonds' = bonds
                    /\ files'[<<StepName(bonds), F_init>>]
                          = Blob("md0", bonds, attempts,
                                 Origin(files, <<StepName(bonds), F_init>>)))) ]_vars

(* C15 witness: the second invocation for a bond is due, after one pass    *)
(* whose output is the step's init.lmps                                    *)
C15_Witness ==
    pc = "attempt" /\ attempts = 2 /\ calls = 1 /\ bonds >= 2
        /\ Origin(files, <<StepName(bonds), F_init>>) = <<"md0", bonds, 1>>

(* the order of the run: the successors of each position *)
C16_Order ==
    {<<"polym_init", "setup_step_0">>, <<"setup_step_0", "em_0">>, <<"em_0", "while">>,
     <<"while", "setup_step">>, <<"while", "polym_final">>,
     <<"setup_step", "polym_step">>, <<"polym_step", "attempt">>,
     <<"attempt", "setup_md">>, <<"setup_md", "md">>, <<"md", "attempt">>,
     <<"attempt", "em">>, <<"attempt", "polym_final">>,
     <<"em", "while">>, <<"em", "setup_md_0">>, <<"em", "polym_final">>,
     <<"setup_md_0", "md_cycle">>, <<"md_cycle", "while">>,
     <<"polym_final", "print_footer">>, <<"print_footer", "exit">>}

(* C16: the run goes initialization, relaxation of step 0, then per bond   *)
(* attempts (with perturbation passes), relaxation, equilibration when     *)
(* due, then finalization; the topology tool is invoked only in an attempt *)
(* and only with the relaxed (or equilibrated) structure of the bond       *)
(* before as temp.lmps; a made bond goes to its relaxation, after which    *)
(* the next invocation is for the next bond; exhaustion goes straight to   *)
(* finalization, with no engine and no topology call after it.             *)
C16_RunOrder ==
    [][ /\ (pc' # "exit" => <<pc, pc'>> \in C16_Order)
        /\ (invoked'.topology # invoked.topology => pc = "attempt")
        /\ (pc = "attempt" =>
              /\ invoked.engine >= 1 + made
              /\ files[<<F_temp>>].op \in {"em", "md1", "md2"}
              /\ files[<<F_temp>>].bond = bonds - 1 /\ made = bonds - 1
              /\ (pc' = "em" <=> made' = made + 1)
              /\ (pc' = "polym_final" <=> rollbacks' = rollbacks + 1))
        /\ (pc = "em" =>
              /\ invoked'.engine = invoked.engine + 1
              /\ invoked'.topology = invoked.topology
              /\ made = bonds
              /\ (pc' # "exit" => Origin(files', <<F_temp>>) = <<"em", bonds, 0>>))
        /\ (exhaustedAt > 0 =>
              /\ invoked'.engine = invoked.engine
              /\ invoked'.topology = invoked.topology
              /\ eq' = eq /\ made' = made
              /\ pc \in {"polym_final", "print_footer", "exit"}) ]_vars

(* C16 witness: finalization reached straight from an exhausted attempt,   *)
(* after a bond that was made, relaxed and equilibrated                    *)
C16_Witness ==
    pc = "polym_final" /\ exhaustedAt = 2 /\ made = 1 /\ Len(eq) = 1
        /\ invoked.engine = 3 /\ invoked.topology = 2

(* C17: directories are deleted only with keep = 0, by em, md and the      *)
(* exhaustion branch of polym_step, and only after the working directory   *)
(* moved to the parent: every deleted directory lies strictly below the    *)
(* new working directory, which is not inside or below any of them and     *)
(* still exists.                                                           *)
C17_CursorOutside ==
    [][ /\ (dirs \ dirs' # {} =>
              /\ keep = 0
              /\ pc \in {"em_0", "em", "md", "md_cycle", "attempt"}
              /\ cwd' = Parent(cwd) /\ Len(cwd') = Len(cwd) - 1
              /\ \A d \in dirs \ dirs' :
                    /\ ~IsPrefix(d, cwd')
                    /\ IsPrefix(cwd', d) /\ Len(d) > Len(cwd'))
        /\ (cwd' = <<>> \/ cwd' \in dirs') ]_vars

(* C17 witness: with keep = 0, md(0) has removed the retry directory and   *)
(* the run is back in the step directory, which is still there             *)
C17_Witness ==
    keep = 0 /\ pc = "attempt" /\ attempts = 2 /\ cwd = <<StepName(bonds)>>
        /\ cwd \in dirs /\ <<StepName(bonds), MdName(1)>> \notin dirs

(* C18: when every call of an external program returns, the run reaches    *)
(* its end, with status 0 after finalization or with status 1; and the     *)
(* topology tool is never invoked more than bonds_tot * (md_max + 1)       *)
(* times in a run.                                                         *)
C18_Terminates ==
    /\ <>(pc = "exit")
    /\ [](pc = "exit" => (exitcode = 0 /\ finalRuns = 1) \/ exitcode = 1)
    /\ [](invoked.topology <= bonds_tot * (md_max + 1))

(* C18 witness: a run that ended with status 0 after bonds_tot *           *)
(* (md_max + 1) topology invocations, half of them retries                 *)
C18_Witness ==
    pc = "exit" /\ exitcode = 0 /\ bonds_tot >= 2 /\ md_max = 1
        /\ invoked.topology = bonds_tot * (md_max + 1)

(* C19: in a run started in a directory without stage directories, every   *)
(* directory setup_step or setup_md is about to create (step_NNN, the      *)
(* step_NNN_md of an equilibration, the md_NNN of a retry inside its step  *)
(* directory) does not exist yet, for keep = 0 and keep # 0 and all tool   *)
(* outcomes; no run ends with the directory-collision error.               *)
C19_FreshNames ==
    workspace = {} =>
        /\ error # MsgCollision
        /\ (pc \in {"setup_step_0", "setup_step"}
              => ~PathExists(dirs, files, cwd \o <<StepName(bonds)>>))
        /\ (pc = "setup_md_0" => ~PathExists(dirs, files, cwd \o <<StepMdName(bonds)>>))
        /\ (pc = "setup_md" => ~PathExists(dirs, files, cwd \o <<MdName(attempts)>>))
        /\ (keep # 0 => Cardinality(dirs) = enters)

(* C19 witness: a run with keep # 0 from a clean directory in which a step *)
(* directory, its equilibration directory and a retry directory were made  *)
C19_Witness ==
    workspace = {} /\ keep = 1 /\ pc = "exit" /\ exitcode = 0
        /\ <<StepName(1)>> \in dirs /\ <<StepMdName(1)>> \in dirs
        /\ <<StepName(2), MdName(1)>> \in dirs

(* C20: setup_step of bond k + 1 stages the top-level temp.lmps as the     *)
(* step's init.lmps; temp.lmps is then the output of the last engine pass  *)
(* after bond k: of md(1|2), run on the min.lmps of bond k, when an        *)
(* equilibration was due after bond k, and of em otherwise.                *)
C20_StagedInput ==
    [][ /\ (pc = "setup_step" /\ pc' = "polym_step" =>
              LET k == bonds - 1
                  staged == files'[<<StepName(bonds), F_init>>]
              IN  /\ staged = files[<<F_temp>>]
                  /\ files'[<<F_temp>>] = files[<<F_temp>>]
                  /\ staged.bond = k
                  /\ IF k >= 1 /\ k % bonds_cyc = 0
                     THEN /\ staged.op = (IF (k \div bonds_cyc) % md_cyc = 0
                                          THEN "md2" ELSE "md1")
                          /\ staged.src = <<"em", k, 0>>
                     ELSE staged.op = "em")
        /\ (pc' = "polym_step" =>
              files'[<<StepName(bonds'), F_init>>] = files'[<<F_temp>>]) ]_vars

(* C20 witness: bond 3 starts from the equilibrated structure of bond 2    *)
C20_Witness ==
    pc = "polym_step" /\ bonds = 3 /\ bonds_cyc = 2
        /\ files[<<StepName(3), F_init>>].op \in {"md1", "md2"}
        /\ files[<<StepName(3), F_init>>].bond = 2
        /\ files[<<StepName(3), F_init>>].src = <<"em", 2, 0>>
====
